---- MODULE Spec2Model ----
(***************************************************************************)
(* Model of scripts/convert_model.py: the command-line entry point and     *)
(* convert_to_onnx, one action per statement of the function, with the     *)
(* file system, the object held by the local `model`, the recorded calls   *)
(* of torch.onnx.export and standard output as state.                      *)
(***************************************************************************)
EXTENDS Integers, Sequences, FiniteSets, TLC

\* ---- bounds ----
NumPaths == 2
NumModels == 1
MaxArgs == 3

\* ---- program constants ----
DefaultImgSize == 640
OpsetVersion == 12
MinArgv == 3
UsageExit == 1

Paths == 1..NumPaths
ScriptName == 0
EdgeSizes == {320, 640, 1280}

\* ---- objects a checkpoint can deserialize to ----
NoObj == [kind |-> "none"]
OtherObj == [kind |-> "object"]
Module(m, t) == [kind |-> "module", id |-> m, training |-> t]
Modules == {Module(m, t) : m \in 1..NumModels, t \in BOOLEAN}
Keys == {"model", "optimizer"}
Values == Modules \cup {OtherObj}
DictEntries ==
  {f \in UNION {[K -> Values] : K \in SUBSET Keys} :
     "optimizer" \in DOMAIN f => f["optimizer"] = OtherObj}
Dict(f) == [kind |-> "dict", entries |-> f]
Objects == Modules \cup {Dict(f) : f \in DictEntries} \cup {OtherObj}

\* ---- file contents ----
NoFile == [kind |-> "missing"]
Garbage == [kind |-> "garbage"]
Ckpt(o) == [kind |-> "checkpoint", obj |-> o]
Truncated == [kind |-> "truncated"]
Graph(m, x, o) == [kind |-> "onnx", model |-> m, args |-> x, opts |-> o]
\* the disk before the run: every path is missing, unreadable, or holds a
\* copy of one serialized object
InitialDisks == UNION {[Paths -> {NoFile, Garbage, Ckpt(o)}] : o \in Objects}

\* ---- messages on standard output ----
UsageMsg == [text |-> "Usage: python convert_model.py <input.pt> <output.onnx>", path |-> 0]
ConfirmMsg(p) == [text |-> "Model converted successfully: ", path |-> p]

VARIABLES name, argv, fs, pc, pt_model_path, onnx_output_path, img_size,
          nargs, loaded, model, dummy_input, exported, stdout, error,
          exit_status, steps

vars == <<name, argv, fs, pc, pt_model_path, onnx_output_path, img_size,
          nargs, loaded, model, dummy_input, exported, stdout, error,
          exit_status, steps>>

Terminal == {"done", "failed"}

ArgvSet == UNION {[1..(n + 1) -> Paths \cup {ScriptName}] : n \in 0..MaxArgs}

Init ==
  /\ name \in {"__main__", "imported"}
  /\ argv \in {a \in ArgvSet : /\ a[1] = ScriptName
                               /\ \A i \in 2..Len(a) : a[i] \in Paths
                               /\ (name = "imported" => Len(a) = 1)}
  /\ fs \in InitialDisks
  /\ pc = "idle"
  /\ pt_model_path = 0
  /\ onnx_output_path = 0
  /\ img_size = 0
  /\ nargs = 0
  /\ loaded = NoObj
  /\ model = NoObj
  /\ dummy_input = <<>>
  /\ exported = <<>>
  /\ stdout = <<>>
  /\ error = "none"
  /\ exit_status = -1
  /\ steps = <<>>

\* ---- __main__ ----
\* variant: anything but two positional arguments is refused
TooFewStrict(a) == Len(a) # MinArgv

\* len(sys.argv) < 3
TooFew(a) == Len(a) < MinArgv

\* variant: the usage branch exits with status 0
MainUsageExitZero ==
  /\ name = "__main__" /\ pc = "idle" /\ exit_status = -1
  /\ TooFew(argv)
  /\ stdout' = Append(stdout, UsageMsg)
  /\ exit_status' = 0
  /\ UNCHANGED <<name, argv, fs, pc, pt_model_path, onnx_output_path,
                 img_size, nargs, loaded, model, dummy_input, exported,
                 error, steps>>

MainUsage ==
  /\ name = "__main__" /\ pc = "idle" /\ exit_status = -1
  /\ TooFew(argv)
  /\ stdout' = Append(stdout, UsageMsg)
  /\ exit_status' = UsageExit
  /\ UNCHANGED <<name, argv, fs, pc, pt_model_path, onnx_output_path,
                 img_size, nargs, loaded, model, dummy_input, exported,
                 error, steps>>

MainConvert ==
  /\ name = "__main__" /\ pc = "idle" /\ exit_status = -1
  /\ ~TooFew(argv)
  /\ pt_model_path' = argv[2]
  /\ onnx_output_path' = argv[3]
  /\ img_size' = DefaultImgSize
  /\ nargs' = 2
  /\ pc' = "load"
  /\ UNCHANGED <<name, argv, fs, loaded, model, dummy_input, exported,
                 stdout, error, exit_status, steps>>

\* the process ends: normally after convert_to_onnx returns, with status 1
\* when the exception leaves the script uncaught
Exit ==
  /\ name = "__main__" /\ pc \in Terminal /\ exit_status = -1
  /\ exit_status' = IF pc = "done" THEN 0 ELSE 1
  /\ UNCHANGED <<name, argv, fs, pc, pt_model_path, onnx_output_path,
                 img_size, nargs, loaded, model, dummy_input, exported,
                 stdout, error, steps>>

\* ---- convert_to_onnx called by an importing program ----
Call(p, o, e, n) ==
  /\ name = "imported" /\ pc = "idle"
  /\ pt_model_path' = p
  /\ onnx_output_path' = o
  /\ img_size' = e
  /\ nargs' = n
  /\ pc' = "load"
  /\ UNCHANGED <<name, argv, fs, loaded, model, dummy_input, exported,
                 stdout, error, exit_status, steps>>

CallDefault == \E p \in Paths, o \in Paths : Call(p, o, DefaultImgSize, 2)

CallWithSize == \E p \in Paths, o \in Paths, e \in EdgeSizes : Call(p, o, e, 3)

\* ---- convert_to_onnx, statement by statement ----
Raise(e) ==
  /\ pc' = "failed"
  /\ error' = e

\* torch.load(pt_model_path, map_location='cpu')
Load ==
  /\ pc = "load"
  /\ steps' = Append(steps, "load")
  /\ IF fs[pt_model_path].kind = "checkpoint"
       THEN /\ loaded' = fs[pt_model_path].obj
            /\ model' = fs[pt_model_path].obj
            /\ pc' = "unwrap"
            /\ UNCHANGED error
       ELSE /\ Raise("LoadError")
            /\ UNCHANGED <<loaded, model>>
  /\ UNCHANGED <<name, argv, fs, pt_model_path, onnx_output_path, img_size,
                 nargs, dummy_input, exported, stdout, exit_status>>

\* variant: the loaded object is used as it is
UnwrappedNot(o) == o

\* model['model'] if isinstance(model, dict) else model
Unwrapped(o) == IF o.kind = "dict" THEN o.entries["model"] ELSE o

\* variant: model.get('model') instead of model['model']
UnwrapWithGet ==
  /\ pc = "unwrap"
  /\ steps' = Append(steps, "unwrap")
  /\ model' = IF model.kind = "dict" /\ "model" \notin DOMAIN model.entries
                THEN NoObj
                ELSE IF model.kind = "dict" THEN model.entries["model"] ELSE model
  /\ pc' = "eval"
  /\ UNCHANGED error
  /\ UNCHANGED <<name, argv, fs, pt_model_path, onnx_output_path, img_size,
                 nargs, loaded, dummy_input, exported, stdout, exit_status>>

Unwrap ==
  /\ pc = "unwrap"
  /\ steps' = Append(steps, "unwrap")
  /\ IF model.kind = "dict" /\ "model" \notin DOMAIN model.entries
       THEN /\ Raise("KeyError")
            /\ UNCHANGED model
       ELSE /\ model' = Unwrapped(model)
            /\ pc' = "eval"
            /\ UNCHANGED error
  /\ UNCHANGED <<name, argv, fs, pt_model_path, onnx_output_path, img_size,
                 nargs, loaded, dummy_input, exported, stdout, exit_status>>

\* model.eval()
Evaled(o) == [o EXCEPT !.training = FALSE]

\* variant: model.eval() is left out
EvalSkipped ==
  /\ pc = "eval"
  /\ steps' = Append(steps, "eval")
  /\ IF model.kind = "module"
       THEN /\ pc' = "dummy"
            /\ UNCHANGED <<model, error>>
       ELSE /\ Raise("AttributeError")
            /\ UNCHANGED model
  /\ UNCHANGED <<name, argv, fs, pt_model_path, onnx_output_path, img_size,
                 nargs, loaded, dummy_input, exported, stdout, exit_status>>

Eval ==
  /\ pc = "eval"
  /\ steps' = Append(steps, "eval")
  /\ IF model.kind = "module"
       THEN /\ model' = Evaled(model)
            /\ pc' = "dummy"
            /\ UNCHANGED error
       ELSE /\ Raise("AttributeError")
            /\ UNCHANGED model
  /\ UNCHANGED <<name, argv, fs, pt_model_path, onnx_output_path, img_size,
                 nargs, loaded, dummy_input, exported, stdout, exit_status>>

\* variant: the edge length is hard-coded
DummyShapeFixed(e) == <<1, 3, DefaultImgSize, DefaultImgSize>>

\* torch.randn(1, 3, img_size, img_size): only the shape is modelled
DummyShape(e) == <<1, 3, e, e>>

Dummy ==
  /\ pc = "dummy"
  /\ dummy_input' = DummyShape(img_size)
  /\ pc' = "export"
  /\ UNCHANGED <<name, argv, fs, pt_model_path, onnx_output_path, img_size,
                 nargs, loaded, model, exported, stdout, error, exit_status,
                 steps>>

\* variant: the output's batch axis is not declared dynamic
ExportOptionsStaticOutput ==
  [opset_version |-> OpsetVersion,
   input_names |-> <<"images">>,
   output_names |-> <<"output">>,
   dynamic_axes |-> [images |-> {0}]]

\* the keyword arguments of torch.onnx.export
ExportOptions ==
  [opset_version |-> OpsetVersion,
   input_names |-> <<"images">>,
   output_names |-> <<"output">>,
   dynamic_axes |-> [images |-> {0}, output |-> {0}]]

ExportCall(r) ==
  [model |-> model, args |-> dummy_input, f |-> onnx_output_path,
   opts |-> ExportOptions, result |-> r]

\* variant: the graph is written to the checkpoint's path
ExportTargetInput == pt_model_path

\* the second positional argument of torch.onnx.export
ExportTarget == onnx_output_path

\* variant: an export error is swallowed and the message is printed anyway
ExportSwallow ==
  /\ pc = "export"
  /\ steps' = Append(steps, "export")
  /\ \/ /\ exported' = Append(exported, ExportCall("ok"))
        /\ fs' = [fs EXCEPT ![ExportTarget] = Graph(model, dummy_input, ExportOptions)]
     \/ /\ exported' = Append(exported, ExportCall("error"))
        /\ UNCHANGED fs
     \/ /\ exported' = Append(exported, ExportCall("error"))
        /\ fs' = [fs EXCEPT ![ExportTarget] = Truncated]
  /\ pc' = "print"
  /\ UNCHANGED error
  /\ UNCHANGED <<name, argv, pt_model_path, onnx_output_path, img_size,
                 nargs, loaded, model, dummy_input, stdout, exit_status>>

\* torch.onnx.export is an external routine: it returns after writing the
\* whole graph, or raises having written nothing, or raises with the
\* destination opened and only partly written
Export ==
  /\ pc = "export"
  /\ steps' = Append(steps, "export")
  /\ \/ /\ exported' = Append(exported, ExportCall("ok"))
        /\ fs' = [fs EXCEPT ![ExportTarget] = Graph(model, dummy_input, ExportOptions)]
        /\ pc' = "print"
        /\ UNCHANGED error
     \/ /\ exported' = Append(exported, ExportCall("error"))
        /\ UNCHANGED fs
        /\ Raise("ExportError")
     \/ /\ exported' = Append(exported, ExportCall("error"))
        /\ fs' = [fs EXCEPT ![ExportTarget] = Truncated]
        /\ Raise("ExportError")
  /\ UNCHANGED <<name, argv, pt_model_path, onnx_output_path, img_size,
                 nargs, loaded, model, dummy_input, stdout, exit_status>>

\* variant: the message names the checkpoint path
ConfirmInputPath ==
  /\ pc = "print"
  /\ steps' = Append(steps, "print")
  /\ stdout' = Append(stdout, ConfirmMsg(pt_model_path))
  /\ pc' = "done"
  /\ UNCHANGED <<name, argv, fs, pt_model_path, onnx_output_path, img_size,
                 nargs, loaded, model, dummy_input, exported, error,
                 exit_status>>

\* print(f"Model converted successfully: {onnx_output_path}")
Confirm ==
  /\ pc = "print"
  /\ steps' = Append(steps, "print")
  /\ stdout' = Append(stdout, ConfirmMsg(onnx_output_path))
  /\ pc' = "done"
  /\ UNCHANGED <<name, argv, fs, pt_model_path, onnx_output_path, img_size,
                 nargs, loaded, model, dummy_input, exported, error,
                 exit_status>>

Next ==
  \/ MainUsage
  \/ MainConvert
  \/ Exit
  \/ CallDefault
  \/ CallWithSize
  \/ Load
  \/ Unwrap
  \/ Eval
  \/ Dummy
  \/ Export
  \/ Confirm

Spec == Init /\ [][Next]_vars

FairSpec == Spec /\ WF_vars(Next)

\* ---- vocabulary of the properties ----
Positional == Len(argv) - 1
ConfirmPrinted == \E i \in DOMAIN stdout : stdout[i].text = ConfirmMsg(0).text
UsagePrinted == \E i \in DOMAIN stdout : stdout[i] = UsageMsg
StepOrder == <<"load", "unwrap", "eval", "export", "print">>
IsPrefix(s, t) == Len(s) <= Len(t) /\ \A i \in 1..Len(s) : s[i] = t[i]
LacksModelKey(o) == o.kind = "dict" /\ "model" \notin DOMAIN o.entries
FewArgs == name = "__main__" /\ Positional \in {0, 1}

TypeOK ==
  /\ pc \in {"idle", "load", "unwrap", "eval", "dummy", "export", "print", "done", "failed"}
  /\ exit_status \in {-1, 0, 1}
  /\ error \in {"none", "LoadError", "KeyError", "AttributeError", "ExportError"}
  /\ Len(exported) <= 1

\* C1: run as a script with 0 or 1 positional arguments, the program prints
\* the usage message and exits with status 1; convert_to_onnx is never
\* entered, so nothing is loaded, nothing is exported, no file changes and the
\* confirmation message is never printed.
C1_UsageOnly ==
  /\ [](FewArgs =>
          /\ pc = "idle" /\ steps = <<>> /\ exported = <<>> /\ loaded = NoObj
          /\ ~ConfirmPrinted
          /\ exit_status \in {-1, 1}
          /\ (exit_status = -1 => stdout = <<>>)
          /\ (exit_status = 1 => stdout = <<UsageMsg>>))
  /\ [][FewArgs => fs' = fs]_vars
  /\ (FewArgs ~> (exit_status = 1))

C1_Witness == FewArgs /\ exit_status = 1 /\ stdout = <<UsageMsg>>

\* C2: when the checkpoint deserializes to a dict without the key "model",
\* convert_to_onnx fails with a KeyError at the unwrap statement; the export
\* routine is never called, no file is written and the confirmation message
\* is never printed.
C2_MissingKeyFails ==
  /\ [](LacksModelKey(loaded) =>
          /\ pc \in {"unwrap", "failed"}
          /\ (pc = "failed" => error = "KeyError" /\ steps = <<"load", "unwrap">>)
          /\ exported = <<>>
          /\ ~ConfirmPrinted
          /\ exit_status # 0)
  /\ [][LacksModelKey(loaded) => fs' = fs]_vars

C2_Witness == LacksModelKey(loaded) /\ pc = "failed" /\ error = "KeyError"

\* C3: a checkpoint {"model": M, ...} is converted exactly as the bare
\* checkpoint M: whatever the wrapping and the other entries, the object put
\* into inference mode and handed to the export routine is M, the export
\* arguments are those of M, and the outcome is decided by M alone.
TheModel == IF loaded.kind = "dict" THEN loaded.entries["model"] ELSE loaded

C3_WrappedAsBare ==
  (loaded # NoObj /\ ~LacksModelKey(loaded) /\ pc # "unwrap") =>
     /\ error # "KeyError"
     /\ (pc = "eval" => model = TheModel)
     /\ (TheModel.kind # "module" =>
           pc \in {"eval", "failed"} /\ exported = <<>> /\ model = TheModel
           /\ (pc = "failed" => error = "AttributeError"))
     /\ (TheModel.kind = "module" /\ pc # "eval" =>
           /\ model = [TheModel EXCEPT !.training = FALSE]
           /\ error \in {"none", "ExportError"}
           /\ \A i \in DOMAIN exported :
                exported[i] = [model |-> [TheModel EXCEPT !.training = FALSE],
                               args |-> <<1, 3, img_size, img_size>>,
                               f |-> onnx_output_path,
                               opts |-> exported[i].opts,
                               result |-> exported[i].result]
           /\ (pc = "done" =>
                 fs[onnx_output_path].kind = "onnx"
                 /\ fs[onnx_output_path].model = [TheModel EXCEPT !.training = FALSE]))

C3_Witness ==
  /\ loaded.kind = "dict" /\ DOMAIN loaded.entries = {"model", "optimizer"}
  /\ pc = "done" /\ exported # <<>>

\* C4 (as stated): run as a script, the conversion is started only when
\* exactly two positional arguments are supplied.
C4_ExactlyTwo == (name = "__main__" /\ pc # "idle") => Positional = 2

\* C4 (amended): run as a script, the conversion is started if and only if at
\* least two positional arguments are supplied; the first two are the
\* checkpoint path and the output path and any further argument is ignored.
C4_AtLeastTwo ==
  name = "__main__" =>
     /\ (pc # "idle" =>
           /\ Positional >= 2
           /\ pt_model_path = argv[2] /\ onnx_output_path = argv[3]
           /\ img_size = 640 /\ nargs = 2)
     /\ (Positional >= 2 => ~UsagePrinted)
     /\ (Positional >= 2 /\ exit_status # -1 => pc \in Terminal)

C4_Witness == name = "__main__" /\ Positional = 3 /\ pc = "done" /\ exit_status = 0

\* C5 (as stated): in every terminal state either the output file has been
\* fully written by the export, or the invocation failed and no output was
\* produced at the output path (never a truncated file).
C5_NoPartial ==
  pc \in Terminal =>
     \/ pc = "done" /\ fs[onnx_output_path].kind = "onnx"
     \/ pc = "failed" /\ fs[onnx_output_path].kind \notin {"onnx", "truncated"}

\* C5 (amended): in the terminal state done the output file has been fully
\* written by the export; an invocation that fails at load, unwrap or the
\* inference-mode switch has written nothing; an invocation that fails inside
\* the export routine leaves the output path untouched or truncated, never
\* a complete graph; only the export statement writes, and only to the
\* output path.
C5_PartialOnlyFromExport ==
  /\ [](pc = "done" =>
          fs[onnx_output_path] = Graph(model, <<1, 3, img_size, img_size>>, exported[1].opts))
  /\ [](pc = "failed" /\ error # "ExportError" =>
          exported = <<>> /\ \A p \in Paths : fs[p].kind \notin {"onnx", "truncated"})
  /\ [](pc = "failed" /\ error = "ExportError" =>
          \A p \in Paths : fs[p].kind # "onnx")
  /\ [][fs' # fs =>
          /\ pc = "export"
          /\ \A p \in Paths \ {onnx_output_path} : fs'[p] = fs[p]]_vars

C5_Witness ==
  pc = "failed" /\ error = "ExportError" /\ fs[onnx_output_path] = Truncated

\* C6: the confirmation message is printed if and only if the export routine
\* returned without error; it is printed after the export, it names the
\* output path given to convert_to_onnx, and no failed invocation prints it.
C6_ConfirmIffExported ==
  /\ (ConfirmPrinted =>
        /\ stdout = <<ConfirmMsg(onnx_output_path)>>
        /\ exported # <<>> /\ exported[1].result = "ok"
        /\ steps = StepOrder
        /\ pc = "done")
  /\ (pc \in Terminal /\ exported # <<>> /\ exported[1].result = "ok" => ConfirmPrinted)
  /\ (pc = "failed" => ~ConfirmPrinted)

C6_Witness ==
  pc = "done" /\ ConfirmPrinted /\ pt_model_path # onnx_output_path

\* C7: every call of the export routine declares exactly one input named
\* "images" and one output named "output", marks axis 0 and only axis 0 of
\* both as dynamic and uses opset version 12, whatever the arguments.
C7_FixedOptions ==
  \A i \in DOMAIN exported :
     /\ exported[i].opts.input_names = <<"images">>
     /\ exported[i].opts.output_names = <<"output">>
     /\ exported[i].opts.dynamic_axes = [images |-> {0}, output |-> {0}]
     /\ exported[i].opts.opset_version = 12
     /\ (exported[i].result = "ok" => fs[exported[i].f].opts = exported[i].opts)

C7_Witness == exported # <<>> /\ exported[1].result = "ok" /\ img_size = 1280

\* C8: the tracing input handed to the export routine has shape
\* [1, 3, img_size, img_size]; img_size is 640 when the argument is omitted
\* and in every run as a script, whatever the command line holds.
C8_DummyShape ==
  /\ \A i \in DOMAIN exported : exported[i].args = <<1, 3, img_size, img_size>>
  /\ (pc \in {"export", "print", "done"} => dummy_input = <<1, 3, img_size, img_size>>)
  /\ (pc # "idle" /\ (nargs = 2 \/ name = "__main__") => img_size = 640)
  /\ (pc # "idle" => img_size > 0)

C8_Witness == exported # <<>> /\ nargs = 3 /\ img_size = 320

\* C9: an invocation starts pending and ends in exactly one of done and
\* failed, which it never leaves; the steps run in the order load, unwrap,
\* eval, export, print, each at most once; the export routine only ever sees
\* a module already switched to inference mode; an error moves directly to
\* failed and no later step runs.
C9_StateMachine ==
  /\ [](/\ IsPrefix(steps, StepOrder)
        /\ Len(exported) <= 1
        /\ \A i \in DOMAIN exported :
              exported[i].model.kind = "module" /\ exported[i].model.training = FALSE
        /\ ((pc = "failed") <=> (error # "none"))
        /\ (pc = "done" => steps = StepOrder)
        /\ (pc = "failed" =>
              /\ steps # <<>>
              /\ error = CASE steps[Len(steps)] = "load" -> "LoadError"
                           [] steps[Len(steps)] = "unwrap" -> "KeyError"
                           [] steps[Len(steps)] = "eval" -> "AttributeError"
                           [] steps[Len(steps)] = "export" -> "ExportError"
                           [] OTHER -> "none"))
  /\ [][/\ (pc \in Terminal =>
              pc' = pc /\ steps' = steps /\ exported' = exported /\ fs' = fs
              /\ stdout' = stdout /\ model' = model)
        /\ (pc = "idle" /\ pc' # "idle" =>
              pc' = "load" /\ steps' = <<>> /\ error' = "none")]_vars
  /\ ((pc = "load") ~> (pc \in Terminal))

C9_Witness == pc = "failed" /\ error = "ExportError" /\ steps = <<"load", "unwrap", "eval", "export">>

\* C10 (as stated): the file at the checkpoint path is never changed by an
\* invocation, also when the checkpoint path and the output path are equal.
C10_CheckpointUntouched ==
  [][pc # "idle" => fs'[pt_model_path] = fs[pt_model_path]]_vars

\* C10 (amended): the file at the checkpoint path is never changed by an
\* invocation whose output path is a different file; when the two paths are
\* the same file, only the export statement changes it.
C10_UntouchedWhenDistinct ==
  [][pc # "idle" =>
       /\ (pt_model_path # onnx_output_path => fs'[pt_model_path] = fs[pt_model_path])
       /\ (fs'[pt_model_path] # fs[pt_model_path] => pc = "export")]_vars

C10_Witness ==
  /\ pc = "done" /\ pt_model_path # onnx_output_path
  /\ fs[pt_model_path] = Ckpt(loaded) /\ fs[onnx_output_path].kind = "onnx"
====
